---- MODULE Spec2Model ----
(***************************************************************************)
(* Model lifecycle pipeline of the ApexRun ML service:                     *)
(*   src/ml-service/tflite_builder.py  (train, export, inference engine)   *)
(*   src/ml-service/main.py            (catalog, download, build, infer)   *)
(*                                                                         *)
(* Spec       the artifact store with its builders and its read handlers   *)
(* SpecTrain  one run of train_model under the EarlyStopping callback      *)
(* SpecEngine export_tflite and run_tflite_inference called as a library   *)
(***************************************************************************)
EXTENDS Integers, Sequences, FiniteSets, TLC

VARIABLES
    files,        \* MODELS_DIR: filename -> [exists, data]
    tfInstalled,  \* whether `import tensorflow` succeeds in the server process
    pc,           \* builder -> position inside build_all_models
    cur,          \* builder -> index (1..3) of the task being built
    woff,         \* builder -> chunks of the artifact written so far
    builds,       \* build invocations started so far
    attempted,    \* builder -> tasks whose pipeline this invocation started
    results,      \* builder -> tasks with a metadata entry in `results`
    status,       \* builder -> outcome of its last finished invocation
    resp          \* the last response of a read handler

storeVars == <<files, tfInstalled, pc, cur, woff, builds, attempted, results, status, resp>>

\* one run of train_model (SpecTrain)
VARIABLES
    restore_at_end, \* whether the installed Keras restores best_weights in on_train_end
    phase,          \* "idle", "fit" (inside model.fit) or "ended" (fit returned)
    epoch,          \* epochs completed
    val_loss,       \* the monitored val_loss of the epoch just completed
    best,           \* EarlyStopping.best
    wait,           \* EarlyStopping.wait
    best_weights,   \* val_loss of EarlyStopping.best_weights (NoLoss: None)
    weights,        \* val_loss of the weights now in the model (NoLoss: untrained)
    min_seen,       \* least val_loss any epoch of this run reported
    stop_training   \* model.stop_training

trainVars == <<restore_at_end, phase, epoch, val_loss, best, wait, best_weights, weights,
               min_seen, stop_training>>

\* export_tflite and run_tflite_inference called as a library (SpecEngine)
VARIABLES
    artifact,     \* what export_tflite left at output_path
    metadata,     \* what the last export_tflite call returned
    calib,        \* the (scale, zero point) pairs conversion derives for this model
    call,         \* the arguments of the last export_tflite call
    inference     \* the last run_tflite_inference call: input, tensors, output

engineVars == <<calib, artifact, metadata, call, inference>>

\* one call of _interpret_prediction (SpecInterpret)
VARIABLES
    interp_model,   \* the model_name argument
    prediction,     \* the prediction argument: numerators over the task's grid
    interpretation  \* the dict returned (kind "none": not called yet)

interpVars == <<interp_model, prediction, interpretation>>

\* the dataset generators and numpy's global random state (SpecData)
VARIABLES
    rng,        \* the state of np.random's global generator
    generated,  \* the last generator call: task, n_samples, state on entry, result
    history     \* (task, n_samples) -> what the first such call returned

dataVars == <<rng, generated, history>>

vars == <<storeVars, trainVars, engineVars, interpVars, dataVars>>

-----------------------------------------------------------------------------
(* Bounds *)

\* build invocations started in one behaviour
MaxBuilds == 2
\* write steps an artifact's bytes take to reach the file
NChunks == 1
\* bytes carried by one write step
ChunkBytes == 1024

-----------------------------------------------------------------------------
(* Tasks, file names, catalog *)

\* the three tasks in the order build_all_models builds them
TaskOrder == <<"gait_form", "injury_risk", "performance">>

Tasks == {TaskOrder[i] : i \in 1..Len(TaskOrder)}

\* model names an inference request may carry
ModelNames == Tasks \cup {"unknown_model"}

ArtifactFile(t) ==
    CASE t = "gait_form"   -> "gait_form_model.tflite"
      [] t = "injury_risk" -> "injury_risk_model.tflite"
      [] t = "performance" -> "performance_model.tflite"

NormFile(name) ==
    CASE name = "gait_form"   -> "gait_form_norm_params.json"
      [] name = "injury_risk" -> "injury_risk_norm_params.json"
      [] name = "performance" -> "performance_norm_params.json"

\* model_map of tflite_inference: task -> expected feature count
ExpectedFeatures(t) ==
    CASE t = "gait_form"   -> 8
      [] t = "injury_risk" -> 7
      [] t = "performance" -> 6

\* keys of model_catalog, in insertion order
ModelCatalog == <<"gait_form_model.tflite", "injury_risk_model.tflite", "performance_model.tflite">>

CatalogFiles == {ModelCatalog[i] : i \in 1..Len(ModelCatalog)}

NormFiles == {NormFile(t) : t \in Tasks}

\* every name a request may look up in MODELS_DIR
FileNames == CatalogFiles \cup NormFiles \cup {"unknown.artifact"}

\* feature-vector lengths a request may carry
FeatureCounts == 6..8

\* the two ways build_all_models is entered
Builders == {"http", "cli"}

NoFile == [exists |-> FALSE, data |-> <<>>]

\* the complete artifact an invocation of builder b exports: NChunks chunks,
\* each carrying the name of the builder that wrote it
FullArtifact(b) == [k \in 1..NChunks |-> b]

\* the normalization-parameters file (mean/std of the seeded dataset)
NormData == <<"norm">>

Exists(fs, name) == fs[name].exists

\* filepath.stat().st_size
StSize(fs, name) == Len(fs[name].data) * ChunkBytes

\* round(x, 1) of num/den, as a number of tenths (ties to even)
RoundTenths(num, den) ==
    LET q == (num * 10) \div den
        r == (num * 10) % den
    IN  IF 2 * r > den \/ (2 * r = den /\ q % 2 = 1) THEN q + 1 ELSE q

\* size_kb = round(st_size / 1024, 1), in tenths of a KB
SizeKbTenths(fs, name) == RoundTenths(StSize(fs, name), 1024)

-----------------------------------------------------------------------------
(* Read handlers of main.py *)

NoSeen == [exists |-> FALSE, data |-> <<>>]

\* list_tflite_models: one entry per catalog file that exists
RECURSIVE ListFrom(_, _), ListFromNoCheck(_, _)

\* (mutant) list_tflite_models without the filepath.exists() test
ListFromNoCheck(fs, i) ==
    IF i > Len(ModelCatalog) THEN <<>>
    ELSE LET filename == ModelCatalog[i]
         IN  <<[filename |-> filename, size_kb |-> SizeKbTenths(fs, filename)]>>
                \o ListFromNoCheck(fs, i + 1)

ListFrom(fs, i) ==
    IF i > Len(ModelCatalog) THEN <<>>
    ELSE LET filename == ModelCatalog[i]
         IN  (IF Exists(fs, filename)
              THEN <<[filename |-> filename, size_kb |-> SizeKbTenths(fs, filename)]>>
              ELSE <<>>) \o ListFrom(fs, i + 1)

\* (mutant) the listing with no existence test
ListModelsNoCheck(fs) == ListFromNoCheck(fs, 1)

ListModels(fs) == ListFrom(fs, 1)

\* download_tflite_model: 404 when the path does not exist, else the file
DownloadStatus(fs, filename) ==
    IF ~Exists(fs, filename) THEN 404 ELSE 200

\* whether tf.lite.Interpreter(model_path=...) can load what is at the path
Loadable(file) == Len(file.data) = NChunks

\* (mutant) the feature-count test accepts a vector that is too long
InferenceStatusTooLong(fs, tf, model, n) ==
    IF model \notin Tasks THEN 400
    ELSE IF n < ExpectedFeatures(model) THEN 400
    ELSE IF ~Exists(fs, ArtifactFile(model)) THEN 404
    ELSE IF ~tf THEN 503
    ELSE IF ~Loadable(fs[ArtifactFile(model)]) THEN 500
    ELSE 200

\* (mutant) the runtime import is tried before the artifact is looked up
InferenceStatusImportFirst(fs, tf, model, n) ==
    IF model \notin Tasks THEN 400
    ELSE IF n # ExpectedFeatures(model) THEN 400
    ELSE IF ~tf THEN 503
    ELSE IF ~Exists(fs, ArtifactFile(model)) THEN 404
    ELSE IF ~Loadable(fs[ArtifactFile(model)]) THEN 500
    ELSE 200

\* tflite_inference: the status the handler answers with
InferenceStatus(fs, tf, model, n) ==
    IF model \notin Tasks THEN 400
    ELSE IF n # ExpectedFeatures(model) THEN 400
    ELSE IF ~Exists(fs, ArtifactFile(model)) THEN 404
    ELSE IF ~tf THEN 503
    ELSE IF ~Loadable(fs[ArtifactFile(model)]) THEN 500
    ELSE 200

\* get_normalization_params
NormalizationStatus(fs, model_name) ==
    IF model_name \notin Tasks THEN 404
    ELSE IF ~Exists(fs, NormFile(model_name)) THEN 404 ELSE 200

NoResp == [op |-> "none", arg |-> "", n |-> 0, code |-> 0, seen |-> NoSeen,
           listing |-> <<>>]

ListTfliteModels ==
    /\ resp' = [op |-> "list", arg |-> "", n |-> 0, code |-> 200, seen |-> NoSeen,
                listing |-> ListModels(files)]
    /\ UNCHANGED <<files, tfInstalled, pc, cur, woff, builds, attempted, results, status>>

\* (mutant) a download that opens the path for writing when it is missing
DownloadCreatesFile ==
    \E filename \in FileNames :
        LET code == DownloadStatus(files, filename)
        IN  /\ resp' = [op |-> "download", arg |-> filename, n |-> 0, code |-> code,
                        seen |-> IF code = 200 THEN files[filename] ELSE NoSeen,
                        listing |-> <<>>]
            /\ files' = IF code = 404
                         THEN [files EXCEPT ![filename] = [exists |-> TRUE, data |-> <<>>]]
                         ELSE files
            /\ UNCHANGED <<tfInstalled, pc, cur, woff, builds, attempted, results, status>>

DownloadTfliteModel ==
    \E filename \in FileNames :
        LET code == DownloadStatus(files, filename)
        IN  /\ resp' = [op |-> "download", arg |-> filename, n |-> 0, code |-> code,
                        seen |-> IF code = 200 THEN files[filename] ELSE NoSeen,
                        listing |-> <<>>]
            /\ UNCHANGED <<files, tfInstalled, pc, cur, woff, builds, attempted, results, status>>

GetNormalizationParams ==
    \E model_name \in ModelNames :
        LET code == NormalizationStatus(files, model_name)
        IN  /\ resp' = [op |-> "normalization", arg |-> model_name, n |-> 0, code |-> code,
                        seen |-> IF code = 200 THEN files[NormFile(model_name)] ELSE NoSeen,
                        listing |-> <<>>]
            /\ UNCHANGED <<files, tfInstalled, pc, cur, woff, builds, attempted, results, status>>

TfliteInference ==
    \E model \in ModelNames, n \in FeatureCounts :
        LET code == InferenceStatus(files, tfInstalled, model, n)
        IN  /\ resp' = [op |-> "inference", arg |-> model, n |-> n, code |-> code,
                        seen |-> IF code \in {200, 500} THEN files[ArtifactFile(model)] ELSE NoSeen,
                        listing |-> <<>>]
            /\ UNCHANGED <<files, tfInstalled, pc, cur, woff, builds, attempted, results, status>>

-----------------------------------------------------------------------------
(* train_model: model.fit under EarlyStopping(patience=10,                 *)
(* restore_best_weights=True, monitor="val_loss")                          *)

\* epochs=50 of build_all_models(epochs=50)
Epochs == 50
\* patience=10 of the EarlyStopping callback
Patience == 10
\* the val_loss values an epoch may report are 0..MaxLoss (a run reaches the
\* epoch cap only through at least Epochs / Patience improvements)
MaxLoss == 5

\* "no loss yet": larger than every val_loss (best starts at infinity)
NoLoss == MaxLoss + 1

Losses == 0..MaxLoss

TrainIdle ==
    /\ restore_at_end = FALSE
    /\ phase = "idle"
    /\ epoch = 0
    /\ val_loss = NoLoss
    /\ best = NoLoss
    /\ wait = 0
    /\ best_weights = NoLoss
    /\ weights = NoLoss
    /\ min_seen = NoLoss
    /\ stop_training = FALSE

\* on_train_begin.  tf.keras up to 2.15 restores best_weights only at the epoch
\* at which the callback stops training; Keras 3 (tf.keras from 2.16) also
\* restores them in on_train_end.  train_model pins neither.
TrainInit ==
    /\ restore_at_end \in BOOLEAN
    /\ phase = "fit"
    /\ epoch = 0
    /\ val_loss = NoLoss
    /\ best = NoLoss
    /\ wait = 0
    /\ best_weights = NoLoss
    /\ weights = NoLoss
    /\ min_seen = NoLoss
    /\ stop_training = FALSE

\* monitor_op for val_loss with min_delta 0: strictly less
IsImprovement(current, reference) == current < reference

\* the patience test of on_epoch_end (epoch is 0-based there)
PatienceExceeded(w, e) == w >= Patience /\ e > 0

\* one epoch of model.fit followed by EarlyStopping.on_epoch_end
EpochStep ==
    /\ phase = "fit" /\ ~stop_training /\ epoch < Epochs
    /\ \E current \in Losses :
        LET bw0      == IF best_weights = NoLoss THEN current ELSE best_weights
            improved == IsImprovement(current, best)
            w1       == IF improved THEN 0 ELSE wait + 1
            stop     == ~improved /\ PatienceExceeded(w1, epoch)
            bw1      == IF improved THEN current ELSE bw0
        IN  /\ val_loss' = current
            /\ epoch' = epoch + 1
            /\ min_seen' = IF current < min_seen THEN current ELSE min_seen
            /\ best' = IF improved THEN current ELSE best
            /\ wait' = w1
            /\ best_weights' = bw1
            /\ stop_training' = stop
            /\ weights' = IF stop /\ ~restore_at_end /\ bw1 # NoLoss THEN bw1 ELSE current
    /\ UNCHANGED <<restore_at_end, phase>>

\* model.fit returns: on_train_end, then train_model returns the history
TrainEnd ==
    /\ phase = "fit" /\ (stop_training \/ epoch = Epochs)
    /\ phase' = "ended"
    /\ weights' = IF restore_at_end /\ best_weights # NoLoss THEN best_weights ELSE weights
    /\ UNCHANGED <<restore_at_end, epoch, val_loss, best, wait, best_weights, min_seen,
                   stop_training>>


-----------------------------------------------------------------------------
(* export_tflite and run_tflite_inference *)

\* quantize arguments: the four documented modes
QuantizeModes == {"none", "float16", "dynamic", "int8"}

\* largest representative_data row count tried (NoData: None was passed)
MaxRows == 2
NoData == 0 - 1

\* the converter's scales are k / ScaleDen for k in 1..MaxScale
MaxScale == 3
ScaleDen == 2
\* zero points are 0..MaxZero
MaxZero == 1
\* real inputs are 0..MaxInput tenths
MaxInput == 12
\* raw quantized outputs are 0..MaxRaw
MaxRaw == 3

\* how the converter is configured: what the artifact really is
ConverterMode(quantize, representative_data) ==
    IF quantize = "float16" THEN "float16"
    ELSE IF quantize = "dynamic" THEN "dynamic"
    ELSE IF quantize = "int8" /\ representative_data # NoData THEN "int8"
    ELSE "float32"

\* inference_input_type / inference_output_type of the converted model
TensorDtype(mode) == IF mode = "int8" THEN "uint8" ELSE "float32"

NoQuant == [num |-> 0, den |-> 1, zero |-> 0]

NoArtifact == [present |-> FALSE, mode |-> "", dtype |-> "", inq |-> NoQuant, outq |-> NoQuant]

NoMetadata == [present |-> FALSE, quantization |-> "", input_dtype |-> "", output_dtype |-> ""]

NoCall == [quantize |-> "", representative_data |-> NoData]

NoInference == [ran |-> FALSE, x |-> 0, fed |-> 0, raw |-> 0,
                out |-> [num |-> 0, den |-> 1]]

Quants == [num : 1..MaxScale, den : {ScaleDen}, zero : 0..MaxZero]

EngineIdle ==
    /\ calib = [inq |-> NoQuant, outq |-> NoQuant]
    /\ artifact = NoArtifact
    /\ metadata = NoMetadata
    /\ call = NoCall
    /\ inference = NoInference

\* the trained model and its calibration rows fix the pairs conversion derives
EngineInit ==
    /\ calib \in [inq : Quants, outq : Quants]
    /\ artifact = NoArtifact
    /\ metadata = NoMetadata
    /\ call = NoCall
    /\ inference = NoInference

\* export_tflite(model, output_path, representative_data, quantize): no branch
\* of it raises on its arguments; the file is written and the metadata record
\* carries the quantize argument as given.  (`inference` always describes a run
\* on the artifact now at the path, so a new export clears it.)
ExportTflite ==
    \E quantize \in QuantizeModes, representative_data \in {NoData} \cup 1..MaxRows :
        LET mode == ConverterMode(quantize, representative_data)
        IN  /\ call' = [quantize |-> quantize, representative_data |-> representative_data]
            /\ artifact' = [present |-> TRUE, mode |-> mode, dtype |-> TensorDtype(mode),
                            inq  |-> IF mode = "int8" THEN calib.inq ELSE NoQuant,
                            outq |-> IF mode = "int8" THEN calib.outq ELSE NoQuant]
            /\ metadata' = [present |-> TRUE, quantization |-> quantize,
                            input_dtype |-> TensorDtype(mode),
                            output_dtype |-> TensorDtype(mode)]
            /\ inference' = NoInference
            /\ UNCHANGED calib

\* (mutant) the input quantization without the zero point
QuantizeInputNoZero(tenths, q) == (tenths * q.den) \div (10 * q.num)

\* (x / scale + zero).astype(np.uint8) for x = tenths/10 >= 0: the cast drops
\* the fraction
QuantizeInput(tenths, q) == (tenths * q.den) \div (10 * q.num) + q.zero

\* (output.astype(np.float32) - zero) * scale, as the fraction num/den
DequantizeOutput(raw, q) == [num |-> (raw - q.zero) * q.num, den |-> q.den]

\* run_tflite_inference(model_path, input_data) on one input element
RunTfliteInference ==
    /\ artifact.present
    /\ \E tenths \in 0..MaxInput, raw \in 0..MaxRaw :
        inference' =
            IF artifact.dtype = "uint8"
            THEN [ran |-> TRUE, x |-> tenths, fed |-> QuantizeInput(tenths, artifact.inq),
                  raw |-> raw, out |-> DequantizeOutput(raw, artifact.outq)]
            ELSE [ran |-> TRUE, x |-> tenths, fed |-> tenths, raw |-> raw,
                  out |-> [num |-> raw, den |-> 1]]
    /\ UNCHANGED <<calib, artifact, metadata, call>>


-----------------------------------------------------------------------------
(* _interpret_prediction *)

\* The outputs are float32 values; the model draws them from dyadic grids
\* (multiples of 1/GaitDen, 1/ProbDen, 1/PerfDen), which float32 and the
\* float64 arithmetic of the function represent exactly.
GaitDen == 32
\* gait outputs range over -GaitMargin .. 100 + GaitMargin
GaitMargin == 5
ProbDen == 16
PerfDen == 8
\* performance outputs range over PerfLow .. PerfHigh seconds
PerfLow == 715
PerfHigh == 905

\* the clamp bounds and level thresholds of the gait_form branch
ScoreMax == 100
ExcellentFrom == 80
GoodFrom == 60
NeedsWorkFrom == 40
\* the floor of the performance branch, and the seconds of a minute
Floor5k == 720
SecondsPerMinute == 60

GaitOutputs == (0 - GaitMargin * GaitDen)..((ScoreMax + GaitMargin) * GaitDen)

ProbOutputs == 0..ProbDen

PerfOutputs == (PerfLow * PerfDen)..(PerfHigh * PerfDen)

\* the (model_name, prediction) pairs a call may carry
InterpretCalls ==
    {[model_name |-> "gait_form", prediction |-> <<p>>] : p \in GaitOutputs}
    \cup {[model_name |-> "injury_risk", prediction |-> <<a, b, c>>] :
             a \in ProbOutputs, b \in ProbOutputs, c \in ProbOutputs}
    \cup {[model_name |-> "injury_risk", prediction |-> <<a>>] : a \in ProbOutputs}
    \cup {[model_name |-> "performance", prediction |-> <<p>>] : p \in PerfOutputs}
    \cup {[model_name |-> "unknown_model", prediction |-> <<p>>] : p \in ProbOutputs}

Max(a, b) == IF a >= b THEN a ELSE b

Min(a, b) == IF a <= b THEN a ELSE b

\* (mutant) the seconds cut off instead of rounded
RoundDown(num, den) == num \div den

\* round(num/den) of Python 3: to the nearest integer, ties to the even one
RoundHalfEven(num, den) ==
    LET q == num \div den
        r == num % den
    IN  IF 2 * r > den \/ (2 * r = den /\ q % 2 = 1) THEN q + 1 ELSE q

\* level of the gait_form branch: decided on the clamped, unrounded score/den
LevelOf(score, den) ==
    IF score >= ExcellentFrom * den THEN "excellent"
    ELSE IF score >= GoodFrom * den THEN "good"
    ELSE IF score >= NeedsWorkFrom * den THEN "needs_work"
    ELSE "poor"

\* the gait_form branch: form_score is round(score, 1), in tenths
InterpretGait(pred) ==
    LET score == Max(0, Min(ScoreMax * GaitDen, pred[1]))
    IN  [kind |-> "gait_form",
         form_score |-> RoundTenths(score, GaitDen),
         level |-> LevelOf(score, GaitDen)]

\* levels of the injury_risk branch
RiskLevels == <<"low", "moderate", "high">>

\* (mutant) the index of the minimum
ArgMin(pred) ==
    CHOOSE i \in 1..Len(pred) :
        /\ \A j \in 1..Len(pred) : pred[j] >= pred[i]
        /\ \A j \in 1..(i - 1) : pred[j] > pred[i]

\* np.argmax: the index of the first maximum (1-based here)
ArgMax(pred) ==
    CHOOSE i \in 1..Len(pred) :
        /\ \A j \in 1..Len(pred) : pred[j] <= pred[i]
        /\ \A j \in 1..(i - 1) : pred[j] < pred[i]

\* max(prediction)
MaxOf(pred) == CHOOSE m \in {pred[i] : i \in 1..Len(pred)} :
                  \A j \in 1..Len(pred) : pred[j] <= m

\* round(p * 100, 1) for p = num/ProbDen, in tenths of a percent
Percent(num) == RoundTenths(num * 100, ProbDen)

\* the injury_risk branch
InterpretInjury(pred) ==
    IF Len(pred) >= 3
    THEN [kind |-> "injury_risk",
          risk_level |-> RiskLevels[ArgMax(pred)],
          confidence |-> Percent(MaxOf(pred)),
          probabilities |-> [low |-> Percent(pred[1]),
                             moderate |-> Percent(pred[2]),
                             high |-> Percent(pred[3])]]
    ELSE [kind |-> "injury_risk", risk_level |-> "unknown"]

\* (10 / 5) ** 1.06 = 2.08493152..., (21.1 / 5) ** 1.06 = 4.60077715...,
\* (42.2 / 5) ** 1.06 = 9.59230531..., each as Hi / 10^4 + Lo / 10^8
RiegelScale == 10000
Riegel10kHi == 20849
Riegel10kLo == 3152
RiegelHalfHi == 46007
RiegelHalfLo == 7715
RiegelMarathonHi == 95923
RiegelMarathonLo == 531

\* t * c for t = num/den and c = hi / 10^4 + lo / 10^8, as whole + rest / unit
\* (the product is taken in two parts to stay inside 32-bit integers)
RiegelProduct(num, den, hi, lo) ==
    LET unit == den * RiegelScale * RiegelScale
        a    == num * hi
        r    == (a % (den * RiegelScale)) * RiegelScale + num * lo
    IN  [whole |-> a \div (den * RiegelScale) + r \div unit,
         rest  |-> r % unit,
         unit  |-> unit]

\* round(t_5k * ratio ** 1.06)
RiegelSeconds(num, den, hi, lo) ==
    LET x == RiegelProduct(num, den, hi, lo)
    IN  IF x.rest > x.unit - x.rest THEN x.whole + 1 ELSE x.whole

\* f"{mins}:{secs:02d}": the minutes, a colon, at least two digits of seconds
FormatMinSec(mins, secs) ==
    [minutes |-> mins, colon |-> ":",
     ss |-> IF secs < 10 THEN <<0, secs>>
            ELSE IF secs < 100 THEN <<secs \div 10, secs % 10>>
            ELSE <<secs \div 100, (secs \div 10) % 10, secs % 10>>]

\* the performance branch
InterpretPerformance(pred) ==
    LET t_5k == Max(Floor5k * PerfDen, pred[1])
        mins == t_5k \div (SecondsPerMinute * PerfDen)
        secs == (t_5k % (SecondsPerMinute * PerfDen)) \div PerfDen
    IN  [kind |-> "performance",
         predicted_5k |-> FormatMinSec(mins, secs),
         predicted_5k_seconds |-> RoundHalfEven(t_5k, PerfDen),
         predicted_10k_seconds |-> RiegelSeconds(t_5k, PerfDen, Riegel10kHi, Riegel10kLo),
         predicted_half_marathon_seconds |->
             RiegelSeconds(t_5k, PerfDen, RiegelHalfHi, RiegelHalfLo),
         predicted_marathon_seconds |->
             RiegelSeconds(t_5k, PerfDen, RiegelMarathonHi, RiegelMarathonLo)]

NoInterpretation == [kind |-> "none"]

\* _interpret_prediction(model_name, prediction, features)
InterpretPredictionOf(name, pred) ==
    IF name = "gait_form" THEN InterpretGait(pred)
    ELSE IF name = "injury_risk" THEN InterpretInjury(pred)
    ELSE IF name = "performance" THEN InterpretPerformance(pred)
    ELSE [kind |-> "empty"]

InterpIdle ==
    /\ interp_model = ""
    /\ prediction = <<>>
    /\ interpretation = NoInterpretation

\* the arguments of the call
InterpInit ==
    /\ \E c \in InterpretCalls :
          /\ interp_model = c.model_name
          /\ prediction = c.prediction
    /\ interpretation = NoInterpretation

InterpretPrediction ==
    /\ interpretation = NoInterpretation
    /\ interpretation' = InterpretPredictionOf(interp_model, prediction)
    /\ UNCHANGED <<interp_model, prediction>>

-----------------------------------------------------------------------------
(* generate_gait_training_data, generate_injury_risk_data,                 *)
(* generate_performance_data                                               *)

\* np.random's generator is modelled as a linear congruential one: its state
\* is 0..RngMod-1 and one draw moves it by s -> (RngMul * s + RngInc) % RngMod
RngMod == 11
RngMul == 3
RngInc == 1
\* n_samples ranges over 1..MaxSamples
MaxSamples == 2

\* the seeds the three generators set
SeedGait == 42
SeedInjury == 43
SeedPerformance == 44

SeedOf(task) ==
    CASE task = "gait_form"   -> SeedGait
      [] task = "injury_risk" -> SeedInjury
      [] task = "performance" -> SeedPerformance

RngStates == 0..(RngMod - 1)

\* (mutant) a generator that does not seed
SeedSkipped(state, seed) == state

\* np.random.seed(seed): the state depends on the seed alone
SeedRng(state, seed) == seed % RngMod

\* one draw: the next state, which is also the value drawn
NextRng(state) == (RngMul * state + RngInc) % RngMod

\* the values of k successive draws from a state
RECURSIVE Draws(_, _)
Draws(state, k) ==
    IF k = 0 THEN <<>> ELSE <<NextRng(state)>> \o Draws(NextRng(state), k - 1)

\* the state after k draws
RECURSIVE AfterDraws(_, _)
AfterDraws(state, k) ==
    IF k = 0 THEN state ELSE AfterDraws(NextRng(state), k - 1)

\* draws of one call: n per feature column, then n for the label noise
DrawCount(task, n) == (ExpectedFeatures(task) + 1) * n

\* the label of row i: a function of the row's features and its noise draw
RECURSIVE RowSum(_, _, _, _)
RowSum(d, n, i, c) ==
    IF c = 0 THEN 0 ELSE d[(c - 1) * n + i] + RowSum(d, n, i, c - 1)

\* the (X, y) a generator returns when it starts from the given state:
\* X[i][c] is draw (c-1)*n + i, y[i] is computed from row i and noise draw i
GenerateFrom(state, task, n) ==
    LET cols == ExpectedFeatures(task)
        d    == Draws(SeedRng(state, SeedOf(task)), DrawCount(task, n))
    IN  [X |-> [i \in 1..n |-> [c \in 1..cols |-> d[(c - 1) * n + i]]],
         y |-> [i \in 1..n |-> (RowSum(d, n, i, cols) + d[cols * n + i]) % RngMod]]

NoDataset == [X |-> <<>>, y |-> <<>>]

NoGenerated == [task |-> "", n |-> 0, entry |-> 0, repeat |-> FALSE, data |-> NoDataset]

DataKeys == Tasks \X (1..MaxSamples)

DataIdle ==
    /\ rng = 0
    /\ generated = NoGenerated
    /\ history = [k \in DataKeys |-> NoDataset]

\* the process starts with a state seeded from the operating system
DataInit ==
    /\ rng \in RngStates
    /\ generated = NoGenerated
    /\ history = [k \in DataKeys |-> NoDataset]

\* one call of a generator
GenerateData ==
    \E task \in Tasks, n \in 1..MaxSamples :
        LET data == GenerateFrom(rng, task, n)
        IN  /\ rng' = AfterDraws(SeedRng(rng, SeedOf(task)), DrawCount(task, n))
            /\ generated' = [task |-> task, n |-> n, entry |-> rng,
                             repeat |-> history[<<task, n>>] # NoDataset, data |-> data]
            /\ history' = IF history[<<task, n>>] = NoDataset
                          THEN [history EXCEPT ![<<task, n>>] = data]
                          ELSE history

\* a random draw elsewhere in the process (weight initialisation, shuffling)
OtherDraw ==
    /\ rng' = NextRng(rng)
    /\ UNCHANGED <<generated, history>>

-----------------------------------------------------------------------------
(* build_all_models, step by step *)

InFlightPcs == {"train", "open", "write", "norm"}

\* the builder is inside the pipeline of some task
InFlight(b) == pc[b] \in InFlightPcs

\* the task the builder is working on
CurTask(b) == TaskOrder[cur[b]]

\* The handlers of main.py are coroutines without an await: the event loop of
\* the server process runs each to its end, so no read handler of that process
\* runs while build_tflite_models is inside build_all_models.  The command-line
\* entry of tflite_builder.py is another process and interleaves freely.
ServerFree == ~InFlight("http")

NoStatus == [code |-> 0, models |-> {}]

\* an exception leaves build_all_models: the local `results` is lost and
\* build_tflite_models answers 500 (the command-line run ends with a traceback)
Fail(b) ==
    /\ pc' = [pc EXCEPT ![b] = "failed"]
    /\ status' = [status EXCEPT ![b] = [code |-> 500, models |-> {}]]
    /\ results' = [results EXCEPT ![b] = {}]
    /\ cur' = [cur EXCEPT ![b] = 1]
    /\ woff' = [woff EXCEPT ![b] = 0]
    /\ UNCHANGED <<files, tfInstalled, builds, attempted, resp>>

\* build_tflite_models / __main__: enter build_all_models
StartBuild(b) ==
    /\ pc[b] \in {"idle", "done", "failed"}
    /\ builds < MaxBuilds
    /\ IF b = "http" /\ ~tfInstalled
       THEN /\ status' = [status EXCEPT ![b] = [code |-> 503, models |-> {}]]
            /\ UNCHANGED <<files, tfInstalled, pc, cur, woff, builds, attempted, results, resp>>
       ELSE /\ builds' = builds + 1
            /\ pc' = [pc EXCEPT ![b] = "train"]
            /\ cur' = [cur EXCEPT ![b] = 1]
            /\ woff' = [woff EXCEPT ![b] = 0]
            /\ attempted' = [attempted EXCEPT ![b] = {TaskOrder[1]}]
            /\ results' = [results EXCEPT ![b] = {}]
            /\ status' = [status EXCEPT ![b] = NoStatus]
            /\ UNCHANGED <<files, tfInstalled, resp>>

\* generate_*_data, build_*_model, train_model, then converter.convert() of
\* export_tflite: all local to the builder; each returns or raises
Train(b) ==
    /\ pc[b] = "train"
    /\ \/ /\ pc' = [pc EXCEPT ![b] = "open"]
          /\ UNCHANGED <<files, tfInstalled, cur, woff, builds, attempted, results, status, resp>>
       \/ Fail(b)

\* open(output_path, "wb"): creates the file or truncates it, at the final path
OpenedFile(file) == [exists |-> TRUE, data |-> <<>>]

Open(b) ==
    /\ pc[b] = "open"
    /\ files' = [files EXCEPT ![ArtifactFile(CurTask(b))] = OpenedFile(@)]
    /\ woff' = [woff EXCEPT ![b] = 0]
    /\ pc' = [pc EXCEPT ![b] = "write"]
    /\ UNCHANGED <<tfInstalled, cur, builds, attempted, results, status, resp>>

\* the zero bytes of a hole
Hole == "hole"

\* the file after chunk c lands at chunk offset off (a write past the end of a
\* file another writer truncated leaves a hole before it)
WriteAt(data, off, c) ==
    IF off < Len(data) THEN [data EXCEPT ![off + 1] = c]
    ELSE [k \in 1..(off + 1) |->
            IF k <= Len(data) THEN data[k] ELSE IF k = off + 1 THEN c ELSE Hole]

\* f.write(tflite_model), then the close that ends the with block
Write(b) ==
    /\ pc[b] = "write"
    /\ files' = [files EXCEPT ![ArtifactFile(CurTask(b))] =
                    [exists |-> TRUE, data |-> WriteAt(@.data, woff[b], b)]]
    /\ woff' = [woff EXCEPT ![b] = @ + 1]
    /\ pc' = [pc EXCEPT ![b] = IF woff[b] + 1 = NChunks THEN "norm" ELSE "write"]
    /\ UNCHANGED <<tfInstalled, cur, builds, attempted, results, status, resp>>

\* the rest of export_tflite (tf.lite.Interpreter(model_content=...),
\* allocate_tensors, the metadata), which returns or raises; then
\* results[task] = metadata, export_normalization_params, and on to the next
\* task or to the summary
Norm(b) ==
    /\ pc[b] = "norm"
    /\ \/ /\ files' = [files EXCEPT ![NormFile(CurTask(b))] =
                          [exists |-> TRUE, data |-> NormData]]
          /\ IF cur[b] < Len(TaskOrder)
             THEN /\ cur' = [cur EXCEPT ![b] = @ + 1]
                  /\ attempted' = [attempted EXCEPT ![b] = @ \cup {TaskOrder[cur[b] + 1]}]
                  /\ results' = [results EXCEPT ![b] = @ \cup {CurTask(b)}]
                  /\ pc' = [pc EXCEPT ![b] = "train"]
                  /\ UNCHANGED status
             ELSE /\ pc' = [pc EXCEPT ![b] = "done"]
                  /\ status' = [status EXCEPT ![b] =
                                   [code |-> 200, models |-> results[b] \cup {CurTask(b)}]]
                  /\ results' = [results EXCEPT ![b] = {}]
                  /\ cur' = [cur EXCEPT ![b] = 1]
                  /\ UNCHANGED attempted
          /\ woff' = [woff EXCEPT ![b] = 0]
          /\ UNCHANGED <<tfInstalled, builds, resp>>
       \/ Fail(b)

\* what the store's actions leave alone
StoreFrame == UNCHANGED <<trainVars, engineVars, interpVars, dataVars>>

StoreInit ==
    /\ files = [f \in FileNames |-> NoFile]
    /\ tfInstalled \in BOOLEAN
    /\ pc = [b \in Builders |-> "idle"]
    /\ cur = [b \in Builders |-> 1]
    /\ woff = [b \in Builders |-> 0]
    /\ builds = 0
    /\ attempted = [b \in Builders |-> {}]
    /\ results = [b \in Builders |-> {}]
    /\ status = [b \in Builders |-> NoStatus]
    /\ resp = NoResp

Next ==
    \/ \E b \in Builders : StartBuild(b) /\ StoreFrame
    \/ \E b \in Builders : Train(b) /\ StoreFrame
    \/ \E b \in Builders : Open(b) /\ StoreFrame
    \/ \E b \in Builders : Write(b) /\ StoreFrame
    \/ \E b \in Builders : Norm(b) /\ StoreFrame
    \/ ServerFree /\ ListTfliteModels /\ StoreFrame
    \/ ServerFree /\ DownloadTfliteModel /\ StoreFrame
    \/ ServerFree /\ GetNormalizationParams /\ StoreFrame
    \/ ServerFree /\ TfliteInference /\ StoreFrame

Init == StoreInit /\ TrainIdle /\ EngineIdle /\ InterpIdle /\ DataIdle

Spec == Init /\ [][Next]_vars

-----------------------------------------------------------------------------
(* Claims about the store, checked under Spec *)

\* the input dimension the specification declares for each task
DeclaredInputDim == [gait_form |-> 8, injury_risk |-> 7, performance |-> 6]

\* an artifact one build invocation exported whole
Complete(file) == file.exists /\ \E b \in Builders : file.data = FullArtifact(b)

\* entries of a listing that name the task's artifact
EntriesFor(L, t) == {i \in 1..Len(L) : L[i].filename = ArtifactFile(t)}

\* C1: for every known task and every feature count, inference answers 400
\* exactly when the count differs from the task's declared input dimension,
\* whatever the store holds and whether or not the runtime is installed.
C1_FeatureCountContract ==
    /\ (resp.op = "inference" /\ resp.arg \in Tasks)
          => (resp.code = 400 <=> resp.n # DeclaredInputDim[resp.arg])
    /\ \A t \in Tasks, n \in FeatureCounts :
          InferenceStatus(files, tfInstalled, t, n) = 400 <=> n # DeclaredInputDim[t]

\* C1 witness: a 400 for a wrong count although the artifact is built and the
\* runtime is not installed in the server.
C1_Witness ==
    /\ resp.op = "inference" /\ resp.arg \in Tasks /\ resp.code = 400
    /\ resp.n # DeclaredInputDim[resp.arg]
    /\ Complete(files[ArtifactFile(resp.arg)])
    /\ ~tfInstalled

\* C2: while an artifact file does not exist, inference for its task with the
\* right feature count answers 404, and a download of any name with no file
\* answers 404; neither request changes a file.
C2_UnbuiltIs404 ==
    /\ [](\A t \in Tasks : ~Exists(files, ArtifactFile(t))
             => InferenceStatus(files, tfInstalled, t, DeclaredInputDim[t]) = 404)
    /\ [](\A f \in FileNames : ~Exists(files, f) => DownloadStatus(files, f) = 404)
    /\ [][resp' # resp =>
            /\ files' = files
            /\ (resp'.op = "inference" /\ resp'.arg \in Tasks
                   /\ resp'.n = DeclaredInputDim[resp'.arg]
                   /\ ~Exists(files, ArtifactFile(resp'.arg))) => resp'.code = 404
            /\ (resp'.op = "download" /\ ~Exists(files, resp'.arg)) => resp'.code = 404]_vars

\* C2 witness: a 404 for a well-formed inference request on an unbuilt task,
\* before any build, in a server without the runtime.
C2_Witness ==
    /\ resp.op = "inference" /\ resp.arg \in Tasks /\ resp.code = 404
    /\ resp.n = DeclaredInputDim[resp.arg]
    /\ builds = 0 /\ ~tfInstalled
    /\ \A f \in FileNames : ~Exists(files, f)

C4_DownloadOnlyCatalog ==
    (resp.op = "download" /\ resp.code = 200) => resp.arg \in CatalogFiles

\* C5: when one task's training or export fails, the other tasks of the same
\* build call are still attempted and the summary reports each task.
C5_FailureScopedToTask ==
    \A b \in Builders :
        pc[b] = "failed" => attempted[b] = Tasks /\ status[b].models # {}

\* C6: a read concurrent with a build observes a complete artifact (the old
\* one or the new one), never a torn one, and does not fail.
C6_NoTornRead ==
    /\ (resp.op = "inference" /\ resp.code \in {200, 500})
          => Complete(resp.seen) /\ resp.code = 200
    /\ (resp.op = "download" /\ resp.code = 200 /\ resp.arg \in CatalogFiles)
          => Complete(resp.seen)
    /\ resp.op = "list"
          => \A i \in 1..Len(resp.listing) :
                resp.listing[i].size_kb = RoundTenths(NChunks * ChunkBytes, 1024)

\* C7: at most one build is in flight per task, and an artifact appears at its
\* final path only whole (written elsewhere, then renamed).
C7_OneBuildPerTaskAtomicPublish ==
    /\ \A t \in Tasks : Cardinality({b \in Builders : InFlight(b) /\ CurTask(b) = t}) <= 1
    /\ \A t \in Tasks : Exists(files, ArtifactFile(t)) => Complete(files[ArtifactFile(t)])

\* C16: listing, download, normalization retrieval and inference are pure
\* reads: whatever they answer, they leave every artifact file and every
\* normalization file unchanged; only a step of a build changes the store.
C16_ReadsArePure ==
    [][/\ resp' # resp => files' = files
       /\ files' # files =>
             \E b \in Builders :
                 /\ pc[b] \in {"open", "write", "norm"}
                 /\ pc'[b] # pc[b] \/ woff'[b] # woff[b]]_vars

\* C16 witness: an inference that failed on a torn artifact (500) after a
\* download and the like, with the file still exactly as the read saw it.
C16_Witness ==
    /\ resp.op = "inference" /\ resp.code = 500
    /\ resp.seen = files[ArtifactFile(resp.arg)]
    /\ \E f \in NormFiles : Exists(files, f)

\* C17: from an empty store, whenever no build invocation is in progress (also
\* after one that failed part-way), each task's artifact file exists exactly
\* when its normalization file exists, so the listing never names a task whose
\* normalization lookup answers 404.
C17_ArtifactIffNormalization ==
    (\A b \in Builders : ~InFlight(b)) =>
        /\ \A t \in Tasks : Exists(files, ArtifactFile(t)) <=> Exists(files, NormFile(t))
        /\ \A i \in 1..Len(ListModels(files)) :
              \A t \in Tasks :
                  ListModels(files)[i].filename = ArtifactFile(t)
                      => NormalizationStatus(files, t) = 200

\* While no invocation has failed, the same holds between invocations.
PairedWhileNoFailure ==
    ((\A b \in Builders : ~InFlight(b)) /\ (\A b \in Builders : status[b].code # 500)
        /\ (\A b \in Builders : pc[b] # "failed"))
        => \A t \in Tasks : Exists(files, ArtifactFile(t)) <=> Exists(files, NormFile(t))

-----------------------------------------------------------------------------
(* Claims about the exporter, the trainer and the engine *)

\* C8: export_tflite called with quantize="int8" and no calibration data
\* rejects the call: it returns no metadata (and none that records int8 for an
\* artifact exported in another mode).
C8_Int8NeedsCalibration ==
    (call.quantize = "int8" /\ call.representative_data = NoData)
        => ~metadata.present /\ ~(artifact.present /\ artifact.mode # "int8")

\* C9: when training ends, by the early stop or at the epoch cap, the weights
\* left in the model have a val_loss no greater than the val_loss of any epoch
\* of the run.
C9_BestWeightsReturned ==
    phase = "ended" => weights <= min_seen

\* When the callback itself stops training, or the installed Keras restores in
\* on_train_end, the weights left are the best seen.
EarlyStopRestoresBest ==
    (phase = "ended" /\ (stop_training \/ restore_at_end)) => weights <= min_seen

\* round(x / scale + zero_point) to nearest (ties to even) for x = tenths/10
RoundedQuantize(tenths, q) ==
    LET d == 10 * q.num
        n == tenths * q.den + q.zero * d
        f == n \div d
        r == n % d
    IN  IF 2 * r > d \/ (2 * r = d /\ f % 2 = 1) THEN f + 1 ELSE f

\* C10: for a quantized input type the engine feeds round(x / scale +
\* zero_point) and returns (raw - zero_point) * scale; for a floating-point type
\* it feeds the input and returns the output untransformed.
C10_AffineTransforms ==
    inference.ran =>
        IF artifact.dtype = "uint8"
        THEN /\ inference.fed = RoundedQuantize(inference.x, artifact.inq)
             /\ inference.out.num * artifact.outq.den
                  = (inference.raw - artifact.outq.zero) * artifact.outq.num * inference.out.den
        ELSE /\ inference.fed = inference.x
             /\ inference.out.num = inference.raw * inference.out.den

\* |a|
Abs(a) == IF a < 0 THEN 0 - a ELSE a

\* C11: for an int8 artifact and every sample x of the calibrated range, the
\* engine's input quantization followed by the affine dequantization with the
\* same scale and zero point gives a value within one scale unit of x
\* (|(fed - zero) * scale - x| <= scale, here multiplied through by 10 * den).
C11_QuantizationRoundTrip ==
    (inference.ran /\ artifact.mode = "int8") =>
        LET q    == artifact.inq
            back == DequantizeOutput(inference.fed, q)
        IN  Abs(back.num * 10 - inference.x * back.den) <= 10 * q.num

\* C11 witness: an int8 artifact with a nonzero zero point, run on a sample
\* that is not a multiple of the scale, so that the round trip is inexact.
C11_Witness ==
    /\ inference.ran /\ artifact.mode = "int8"
    /\ artifact.inq.zero > 0
    /\ (inference.x * artifact.inq.den) % (10 * artifact.inq.num) # 0
    /\ DequantizeOutput(inference.fed, artifact.inq).num * 10
          # inference.x * artifact.inq.den

-----------------------------------------------------------------------------
(* Claims about _interpret_prediction, checked under SpecInterpret *)

\* the single output clamped to [0, 100], over GaitDen
ClampedScore == Max(0, Min(ScoreMax * GaitDen, prediction[1]))

\* the level that goes with a reported form_score (in tenths)
LevelFor(form_score) ==
    IF form_score >= 800 THEN "excellent"
    ELSE IF form_score >= 600 THEN "good"
    ELSE IF form_score >= 400 THEN "needs_work"
    ELSE "poor"

\* C12: the gait_form interpretation reports a form_score within [0, 100] equal
\* to the output clamped to that range (to the one decimal reported), and the
\* level that goes with the reported form_score: excellent from 80, good from
\* 60, needs_work from 40, poor below; output 100 gives 100 / excellent and
\* output -5 gives 0 / poor.
C12_GaitScoreAndLevel ==
    interpretation.kind = "gait_form" =>
        /\ interpretation.form_score >= 0
        /\ interpretation.form_score <= 1000
        /\ 2 * Abs(interpretation.form_score * GaitDen - 10 * ClampedScore) <= GaitDen
        /\ interpretation.level = LevelFor(interpretation.form_score)
        /\ prediction = <<100 * GaitDen>>
              => interpretation.form_score = 1000 /\ interpretation.level = "excellent"
        /\ prediction = <<0 - 5 * GaitDen>>
              => interpretation.form_score = 0 /\ interpretation.level = "poor"

\* the clamped output of the performance task, over PerfDen
T5k == Max(720 * PerfDen, prediction[1])

\* r is a nearest integer to (num/den) * (hi / 10^4 + lo / 10^8)
NearestToProduct(r, num, den, hi, lo) ==
    LET x == RiegelProduct(num, den, hi, lo)
    IN  \/ r = x.whole /\ 2 * x.rest <= x.unit
        \/ r = x.whole + 1 /\ 2 * x.rest >= x.unit

\* the Riegel law of C13 without its worked example
RiegelLaw ==
    /\ interpretation.predicted_5k_seconds >= 720
    /\ 2 * Abs(interpretation.predicted_5k_seconds * PerfDen - T5k) <= PerfDen
    /\ NearestToProduct(interpretation.predicted_10k_seconds, T5k, PerfDen,
                        Riegel10kHi, Riegel10kLo)
    /\ NearestToProduct(interpretation.predicted_half_marathon_seconds, T5k, PerfDen,
                        RiegelHalfHi, RiegelHalfLo)
    /\ NearestToProduct(interpretation.predicted_marathon_seconds, T5k, PerfDen,
                        RiegelMarathonHi, RiegelMarathonLo)

\* C13 (as stated): with T = max(720, p), predicted_5k_seconds = round(T),
\* predicted_10k_seconds = round(T * 2^1.06), half-marathon and marathon by the
\* same law on 21.1/5 and 42.2/5; for p = 900 the report is 900 and 1873.
C13_RiegelChainAsStated ==
    interpretation.kind = "performance" =>
        /\ RiegelLaw
        /\ prediction = <<900 * PerfDen>>
              => /\ interpretation.predicted_5k_seconds = 900
                 /\ interpretation.predicted_10k_seconds = 1873

\* C13 (amended): the same law; for p = 900 the report is 900 and
\* round(900 * 2^1.06) = round(1876.44) = 1876.
C13_RiegelChain ==
    interpretation.kind = "performance" =>
        /\ RiegelLaw
        /\ prediction = <<900 * PerfDen>>
              => /\ interpretation.predicted_5k_seconds = 900
                 /\ interpretation.predicted_10k_seconds = 1876

\* C13 witness: the interpretation of p = 900.
C13_Witness ==
    /\ interp_model = "performance" /\ prediction = <<900 * PerfDen>>
    /\ interpretation.kind = "performance"
    /\ interpretation.predicted_5k_seconds = 900
    /\ interpretation.predicted_10k_seconds = 1876

\* C13 witness of the floor: an output below 720 reported as 720.
C13_FloorWitness ==
    /\ interp_model = "performance" /\ prediction[1] < 720 * PerfDen
    /\ interpretation.kind = "performance"
    /\ interpretation.predicted_5k_seconds = 720

\* the 1-based index of a risk level
LevelIndex(level) == CHOOSE i \in 1..Len(RiskLevels) : RiskLevels[i] = level

\* the risk_level is the class of a maximal probability and the confidence is
\* the value listed for that class
RiskLevelIsArgMax ==
    /\ interpretation.risk_level \in {RiskLevels[i] : i \in 1..Len(RiskLevels)}
    /\ \A j \in 1..3 : prediction[j] <= prediction[LevelIndex(interpretation.risk_level)]
    /\ interpretation.confidence = interpretation.probabilities[interpretation.risk_level]

\* C14 (as stated): risk_level is the class at the index of the maximum
\* probability, confidence is that class's probability times 100, the value
\* listed for that class, and the three probabilities are listed times 100.
C14_InjuryArgMaxAsStated ==
    (interpretation.kind = "injury_risk" /\ Len(prediction) = 3) =>
        /\ RiskLevelIsArgMax
        /\ interpretation.confidence * ProbDen
              = 1000 * prediction[LevelIndex(interpretation.risk_level)]
        /\ interpretation.probabilities.low * ProbDen = 1000 * prediction[1]
        /\ interpretation.probabilities.moderate * ProbDen = 1000 * prediction[2]
        /\ interpretation.probabilities.high * ProbDen = 1000 * prediction[3]

\* C14 (amended): as stated, with each reported percentage being the
\* probability times 100 rounded to one decimal place (within 0.05 of it).
C14_InjuryArgMax ==
    (interpretation.kind = "injury_risk" /\ Len(prediction) = 3) =>
        /\ RiskLevelIsArgMax
        /\ 2 * Abs(interpretation.confidence * ProbDen
                     - 1000 * prediction[LevelIndex(interpretation.risk_level)]) <= ProbDen
        /\ 2 * Abs(interpretation.probabilities.low * ProbDen - 1000 * prediction[1])
              <= ProbDen
        /\ 2 * Abs(interpretation.probabilities.moderate * ProbDen - 1000 * prediction[2])
              <= ProbDen
        /\ 2 * Abs(interpretation.probabilities.high * ProbDen - 1000 * prediction[3])
              <= ProbDen

\* C14 witness: three distinct probabilities, the greatest in the middle, whose
\* percentage has more than one decimal.
C14_Witness ==
    /\ interp_model = "injury_risk" /\ Len(prediction) = 3
    /\ prediction[2] > prediction[3] /\ prediction[3] > prediction[1]
    /\ interpretation.kind = "injury_risk"
    /\ interpretation.risk_level = "moderate"
    /\ interpretation.confidence = interpretation.probabilities.moderate
    /\ interpretation.confidence * ProbDen # 1000 * prediction[2]

\* the seconds a formatted "M:SS" denotes
SecondsOfMinSec(text) ==
    text.minutes * 60 + text.ss[1] * 10 + text.ss[2]

\* C18: the formatted predicted_5k "M:SS" has SS in 00..59 and denotes the same
\* number of seconds as predicted_5k_seconds, also for fractional outputs.
C18_FormattedMatchesSeconds ==
    interpretation.kind = "performance" =>
        /\ Len(interpretation.predicted_5k.ss) = 2
        /\ interpretation.predicted_5k.ss[1] \in 0..5
        /\ interpretation.predicted_5k.ss[2] \in 0..9
        /\ SecondsOfMinSec(interpretation.predicted_5k)
              = interpretation.predicted_5k_seconds

\* The formatted text is the clamped output cut to whole seconds.
FormattedIsFloor ==
    interpretation.kind = "performance" =>
        /\ Len(interpretation.predicted_5k.ss) = 2
        /\ interpretation.predicted_5k.ss[1] \in 0..5
        /\ interpretation.predicted_5k.ss[2] \in 0..9
        /\ SecondsOfMinSec(interpretation.predicted_5k) = T5k \div PerfDen

-----------------------------------------------------------------------------
(* Claims about the dataset generators, checked under SpecData *)

\* C15: two calls of a task's generator with the same sample count return
\* identical feature matrices and labels, whatever generator calls or random
\* draws happened between them: every call returns what the first call with
\* its task and count returned.
C15_GenerationDeterministic ==
    generated.task # "" => generated.data = history[<<generated.task, generated.n>>]

\* C15 witness: a repeated call, entered in a generator state other than the
\* one its seed sets and other than the one a call of its own leaves behind,
\* after another task's generator has also run.
C15_Witness ==
    /\ generated.task # "" /\ generated.repeat
    /\ generated.entry # SeedRng(generated.entry, SeedOf(generated.task))
    /\ generated.entry # AfterDraws(SeedRng(generated.entry, SeedOf(generated.task)),
                                    DrawCount(generated.task, generated.n))
    /\ \E k \in DataKeys : k[1] # generated.task /\ history[k] # NoDataset
    /\ generated.data = history[<<generated.task, generated.n>>]
    /\ generated.data # NoDataset

-----------------------------------------------------------------------------
(* The other specifications *)

StoreIdle ==
    /\ files = [f \in FileNames |-> NoFile]
    /\ tfInstalled = TRUE
    /\ pc = [b \in Builders |-> "idle"]
    /\ cur = [b \in Builders |-> 1]
    /\ woff = [b \in Builders |-> 0]
    /\ builds = 0
    /\ attempted = [b \in Builders |-> {}]
    /\ results = [b \in Builders |-> {}]
    /\ status = [b \in Builders |-> NoStatus]
    /\ resp = NoResp

InitTrain == StoreIdle /\ EngineIdle /\ InterpIdle /\ DataIdle /\ TrainInit

NextTrain ==
    \/ EpochStep /\ UNCHANGED <<storeVars, engineVars, interpVars, dataVars>>
    \/ TrainEnd /\ UNCHANGED <<storeVars, engineVars, interpVars, dataVars>>

SpecTrain == InitTrain /\ [][NextTrain]_vars

InitEngine == StoreIdle /\ TrainIdle /\ InterpIdle /\ DataIdle /\ EngineInit

NextEngine ==
    \/ ExportTflite /\ UNCHANGED <<storeVars, trainVars, interpVars, dataVars>>
    \/ RunTfliteInference /\ UNCHANGED <<storeVars, trainVars, interpVars, dataVars>>

SpecEngine == InitEngine /\ [][NextEngine]_vars

InitInterpret == StoreIdle /\ TrainIdle /\ EngineIdle /\ DataIdle /\ InterpInit

NextInterpret ==
    \/ InterpretPrediction /\ UNCHANGED <<storeVars, trainVars, engineVars, dataVars>>

SpecInterpret == InitInterpret /\ [][NextInterpret]_vars

InitData == StoreIdle /\ TrainIdle /\ EngineIdle /\ InterpIdle /\ DataInit

NextData ==
    \/ GenerateData /\ UNCHANGED <<storeVars, trainVars, engineVars, interpVars>>
    \/ OtherDraw /\ UNCHANGED <<storeVars, trainVars, engineVars, interpVars>>

SpecData == InitData /\ [][NextData]_vars

====
